---- MODULE Spec2Model ----
(***************************************************************************)
(* Human-in-the-loop task engine, subprocess runner, process lock and      *)
(* per-connection request queue of the Telegram relay, with the response   *)
(* classifier, the inline keyboard, the progress callbacks of the          *)
(* streaming runner and the authorization check on their own; the loop of  *)
(* the Anthropic processor, the chat.send handler of the OpenClaw gateway  *)
(* and the runs of the TwinMind monitor.                                   *)
(*                                                                         *)
(* Nullable columns and optional values are encoded as sets: {} is         *)
(* NULL / undefined and {v} is the value v.                                *)
(***************************************************************************)
EXTENDS Integers, Sequences, FiniteSets, TLC

VARIABLES
  tasks,      \* async_tasks table: task id -> row, or NoTask
  inv,        \* the processWithAnthropic invocation in flight (one chat)
  pauseHist,  \* history: task id -> message list of the engine at the pause
  reminders,  \* history: task id -> reminders sent during the current pause
  lastOp,     \* history: how the last handleTaskResponse / ask_user pause ended
  lock,       \* bot.lock file: exists, pid, mtime
  procs,      \* relay processes: lifecycle position and heartbeat timer
  now,        \* wall clock of the lock model, seconds
  run,        \* one callClaude / callClaudeStreaming call
  queues,     \* connectionQueues: deviceToken -> promise chain
  conns,      \* which device tokens have an open socket
  cls,        \* one call of parseClaudeResponse: its input and its result
  kb,         \* one inline keyboard: its task, options, buttons and the tap
  stream,     \* one callClaudeStreaming read loop: clock and progress calls
  auth,       \* one call of isAuthorizedUser: its arguments and its result
  loop,       \* one processWithAnthropic call: its loop counter and what it returned
  chat,       \* OpenClaw gateway: _lastSessionId and one chat.send request per device
  mon         \* TwinMind monitor: twinmind_meetings rows, its runs, summaries sent

taskVars  == <<tasks, inv, pauseHist, reminders, lastOp>>
lockVars  == <<lock, procs, now>>
runVars   == <<run>>
queueVars == <<queues, conns>>
clsVars   == <<cls>>
kbVars    == <<kb>>
streamVars == <<stream>>
authVars  == <<auth>>
loopVars  == <<loop>>
chatVars  == <<chat>>
monVars   == <<mon>>
vars      == <<tasks, inv, pauseHist, reminders, lastOp, lock, procs, now, run, queues,
               conns, cls, kb, stream, auth, loop, chat, mon>>

None == {}
Some(v) == {v}
The(o) == CHOOSE v \in o : TRUE
Min(a, b) == IF a < b THEN a ELSE b

-----------------------------------------------------------------------------
(* Bounds *)
MaxTasks == 1
MaxIterations == 1
MaxReminders == 2

-----------------------------------------------------------------------------
(* Strings.  A string is a sequence of characters; the operators below are *)
(* the JavaScript string methods the relay calls.                          *)

Char(s, i) == SubSeq(s, i, i)

\* s.substring(0, n)
substring(s, n) == SubSeq(s, 1, Min(Len(s), n))

\* s.includes(m)
includes(s, m) ==
  \E i \in 1..(Len(s) - Len(m) + 1) : SubSeq(s, i, i + Len(m) - 1) = m

\* s.endsWith(m)
endsWith(s, m) ==
  Len(s) >= Len(m) /\ SubSeq(s, Len(s) - Len(m) + 1, Len(s)) = m

\* Characters matched by \s and removed by trim()
Whitespace == {" ", "\t", "\n"}

RECURSIVE trimStart(_)
trimStart(s) ==
  IF Len(s) > 0 /\ Char(s, 1) \in Whitespace THEN trimStart(Tail(s)) ELSE s

RECURSIVE trimEnd(_)
trimEnd(s) ==
  IF Len(s) > 0 /\ Char(s, Len(s)) \in Whitespace
  THEN trimEnd(SubSeq(s, 1, Len(s) - 1)) ELSE s

\* s.trim()
trim(s) == trimEnd(trimStart(s))

UpperCase == "ABCDEFGHIJKLMNOPQRSTUVWXYZ"
LowerCase == "abcdefghijklmnopqrstuvwxyz"

lowerChar(c) ==
  IF \E i \in 1..Len(UpperCase) : Char(UpperCase, i) = c
  THEN Char(LowerCase, CHOOSE i \in 1..Len(UpperCase) : Char(UpperCase, i) = c)
  ELSE c

\* s.toLowerCase()
RECURSIVE toLowerCase(_)
toLowerCase(s) ==
  IF Len(s) = 0 THEN "" ELSE lowerChar(Char(s, 1)) \o toLowerCase(Tail(s))

\* parts.join(sep)
RECURSIVE join(_, _)
join(parts, sep) ==
  IF Len(parts) = 0 THEN ""
  ELSE IF Len(parts) = 1 THEN parts[1]
  ELSE parts[1] \o sep \o join(Tail(parts), sep)

\* s.split(sep) for a separator of one character
RECURSIVE split(_, _)
split(s, sep) ==
  IF ~includes(s, sep) THEN <<s>>
  ELSE LET i == CHOOSE k \in 1..Len(s) :
                  Char(s, k) = sep /\ \A j \in 1..(k - 1) : Char(s, j) # sep
       IN <<SubSeq(s, 1, i - 1)>> \o split(SubSeq(s, i + 1, Len(s)), sep)

-----------------------------------------------------------------------------
(* Response classifier.  An engine output is the list of its lines: the    *)
(* raw output is the lines joined by "\n".  Its text is carried into the   *)
(* task as a name and a length.                                            *)

\* An output spelled out line by line; len is the length of the raw
\* output, pad the whitespace at its two ends.
Output(lines) ==
  LET raw == join(lines, "\n")
  IN [name |-> raw, len |-> Len(raw), pad |-> Len(raw) - Len(trim(raw)),
      lines |-> lines]

OutDone == Output(<<"Done! I've updated the file.">>)
OutNumbered == Output(<<"1. Ship now", "2. Wait a week", "Which one is it?">>)

\* A long report that ends with a newline; its body is not spelled out.
OutLong ==
  [name |-> "long", len |-> 10002, pad |-> 1,
   lines |-> <<"Here is the full report">>]
\* A question with a choice marker but nothing to choose from.
OutOpenQuestion == Output(<<"What do you think?">>)
\* A question line followed by its numbered options.
OutQuestionFirst ==
  Output(<<"Which do you prefer?", "1. Ship now", "2. Wait a week">>)

\* The engine outputs the task engine is driven with.
EngineOutputs ==
  {OutDone, OutNumbered, OutLong, OutOpenQuestion, OutQuestionFirst}

Digits == {"0", "1", "2", "3", "4", "5", "6", "7", "8", "9"}

\* Number of digits a string starts with
RECURSIVE digitsLen(_)
digitsLen(s) ==
  IF Len(s) > 0 /\ Char(s, 1) \in Digits THEN 1 + digitsLen(Tail(s)) ELSE 0

LabelLen == 64

\* One match of /(?:^|\n)\s*(\d+)\.\s+(.+)/ in a line: spaces, a numeral,
\* a dot, at least one space and at least one more character.  A numeral
\* alone on its line is not among the inputs.
numberedMatch(line) ==
  LET s == trimStart(line)
      d == digitsLen(s)
      numeral == SubSeq(s, 1, d)
      rest == SubSeq(s, d + 2, Len(s))
  IN IF d > 0 /\ Len(s) >= d + 3 /\ Char(s, d + 1) = "."
        /\ Char(s, d + 2) \in Whitespace
     THEN Some([label |-> numeral \o ". " \o substring(trim(rest), LabelLen),
                value |-> numeral])
     ELSE None

RECURSIVE numberedMatches(_)
numberedMatches(lines) ==
  IF lines = <<>> THEN <<>>
  ELSE LET m == numberedMatch(Head(lines))
           rest == numberedMatches(Tail(lines))
       IN IF m # None THEN <<The(m)>> \o rest ELSE rest

choiceMarkers ==
  {"which would you prefer", "which do you prefer", "what would you like",
   "which should i", "which option", "please choose", "please select",
   "would you like me to", "should i", "do you want me to",
   "what do you think", "your preference", "your choice"}

\* The regular expressions of yesNoPatterns, all literal and case-insensitive
yesNoPatterns ==
  {"should i", "would you like me to", "do you want me to", "shall i",
   "can i proceed", "go ahead"}

YesNoOptions ==
  <<[label |-> "Yes, go ahead", value |-> "yes"],
    [label |-> "No, skip", value |-> "no"]>>

MaxOptions == 6

\* text.split("\n").filter((l) => l.trim())
nonBlank(lines) == SelectSeq(lines, LAMBDA l : trim(l) # "")

\* Mutant: the first line is taken for the last.
lastLineOf_first(lines) == trim(lines[1])

\* lines[lines.length - 1]?.trim()
lastLineOf(lines) == trim(lines[Len(lines)])

\* Mutant: one numbered item is enough.
needsInputOf_oneItem(hasQuestion, matches, hasChoiceMarker) ==
  hasQuestion /\ (matches >= 1 \/ hasChoiceMarker)

\* hasQuestion && (numberedMatches.length >= 2 || hasChoiceMarker)
needsInputOf(hasQuestion, matches, hasChoiceMarker) ==
  hasQuestion /\ (matches >= 2 \/ hasChoiceMarker)

\* Mutant: every option found is returned.
sliceOptions_all(options) == options

\* options.slice(0, 6)
sliceOptions(options) == SubSeq(options, 1, Min(Len(options), MaxOptions))

parseClaudeResponse(output) ==
  IF nonBlank(output.lines) = <<>>
  THEN [text |-> [text |-> "", len |-> 0], needsInput |-> FALSE,
        question |-> None, options |-> <<>>]
  ELSE
    LET matches == numberedMatches(output.lines)
        lastLine == lastLineOf(nonBlank(output.lines))
        hasQuestion == endsWith(lastLine, "?")
        hasChoiceMarker ==
          \E i \in 1..Len(output.lines) :
            \E m \in choiceMarkers : includes(toLowerCase(output.lines[i]), m)
        needsInput == needsInputOf(hasQuestion, Len(matches), hasChoiceMarker)
        isYesNo == \E p \in yesNoPatterns : includes(toLowerCase(lastLine), p)
        options == IF needsInput /\ Len(matches) = 0 /\ isYesNo
                   THEN YesNoOptions ELSE matches
    IN [text |-> [text |-> output.name, len |-> output.len - output.pad],
        needsInput |-> needsInput,
        question |-> IF needsInput THEN Some(lastLine) ELSE None,
        options |-> sliceOptions(options)]

\* Outputs built from an opening line, n numbered items and a closing line;
\* an empty opening or closing line is a blank line of the output.
MaxNumbered == 9
Heads == {"", "Which do you prefer?", "Here are the options:"}
Tails == {"", "Which one is it?", "Should I go ahead?", "That is all.",
          "Please choose one."}
optionLine(i) == ToString(i) \o ". Option " \o ToString(i)
GeneratedOutput(head, n, tail) ==
  Output(<<head>> \o [i \in 1..n |-> optionLine(i)] \o <<tail>>)
ClassifierInputs ==
  {GeneratedOutput(h, n, t) : h \in Heads, n \in 0..MaxNumbered, t \in Tails}

\* const parsed = parseClaudeResponse(claudeOutput), computed once for each
\* output.
Classified ==
  [o \in EngineOutputs \cup ClassifierInputs |-> parseClaudeResponse(o)]

-----------------------------------------------------------------------------
(* Task store *)

TaskIds == 1..MaxTasks
NoTask == [status |-> "absent"]

\* A row as the schema's defaults leave it, in the state createTask returns.
createTask(prompt, by) ==
  [status |-> "running", original_prompt |-> prompt, processed_by |-> by,
   result |-> None, session_id |-> None, current_step |-> None,
   pending_question |-> None, pending_options |-> None,
   user_response |-> None, reminder_sent |-> FALSE, metadata |-> None]

\* An update object is a function from the keys it sends to their values.
\* A key whose value is undefined is not sent: it is not in the object.
NoKeys == [k \in {} |-> k]

\* Mutant: a key whose value is null is sent as it is.
orUndefined_sendNull(key, value) == key :> value

\* `key: value || undefined` in an update object
orUndefined(key, value) == IF value = None THEN NoKeys ELSE (key :> value)

\* Single-row partial update: the columns named by the keys are written.
updateTask(row, updates) ==
  [f \in DOMAIN row |-> IF f \in DOMAIN updates THEN updates[f] ELSE row[f]]

getTaskById(id) == IF id \in TaskIds /\ tasks[id] # NoTask THEN Some(tasks[id]) ELSE None

Exists(t) == tasks[t] # NoTask
FreeIds == {t \in TaskIds : tasks[t] = NoTask}
NewId == CHOOSE t \in FreeIds : \A u \in FreeIds : t <= u

Substring(text, n) == [text |-> text.text, len |-> Min(text.len, n)]
CurrentStepLen == 500
ResultLen == 10000

-----------------------------------------------------------------------------
(* Task queue: handleTaskResponse, handleTaskCallback, checkStaleTasks *)

Text(t, n) == [text |-> t, len |-> n]
CancelledResult == Text("Cancelled by user", 17)

\* Mutant: the task is paused on the classifier's needsInput alone.
handleTaskResponseUpdates_noOptionCheck(parsed, sessionId) ==
  IF parsed.needsInput
  THEN [status |-> "needs_input",
        current_step |-> Some(Substring(parsed.text, CurrentStepLen)),
        pending_options |-> Some(parsed.options)]
       @@ orUndefined("session_id", sessionId)
       @@ orUndefined("pending_question", parsed.question)
  ELSE [status |-> "completed",
        result |-> Some(Substring(parsed.text, ResultLen))]
       @@ orUndefined("session_id", sessionId)

handleTaskResponseUpdates(parsed, sessionId) ==
  IF parsed.needsInput /\ Len(parsed.options) > 0
  THEN [status |-> "needs_input",
        current_step |-> Some(Substring(parsed.text, CurrentStepLen)),
        pending_options |-> Some(parsed.options)]
       @@ orUndefined("session_id", sessionId)
       @@ orUndefined("pending_question", parsed.question)
  ELSE [status |-> "completed",
        result |-> Some(Substring(parsed.text, ResultLen))]
       @@ orUndefined("session_id", sessionId)

\* return { needsInput: parsed.needsInput, response: parsed }
handleTaskResponseReturn(parsed) ==
  [needsInput |-> parsed.needsInput, response |-> parsed]

\* task.pending_options.find(o => o.value === choice)
RECURSIVE FindOption(_, _)
FindOption(options, choice) ==
  IF options = <<>> THEN None
  ELSE IF Head(options).value = choice THEN Some(Head(options))
  ELSE FindOption(Tail(options), choice)

choiceTextOf(task, choice) ==
  IF task.pending_options # None
     /\ FindOption(The(task.pending_options), choice) # None
  THEN The(FindOption(The(task.pending_options), choice)).label
  ELSE choice

\* Mutant: the cancel branch forgets the status.
cancelUpdates_noStatus == [result |-> Some(CancelledResult)]

cancelUpdates == [status |-> "failed", result |-> Some(CancelledResult)]

\* pending_question: undefined and pending_options: undefined are keys
\* that are not sent.
resumeUpdates(choiceText) ==
  [status |-> "running",
   user_response |-> Some(choiceText)]
  @@ orUndefined("pending_question", None)
  @@ orUndefined("pending_options", None)

handleTaskCallbackUpdates(task, choice) ==
  IF choice = "cancel" THEN cancelUpdates
  ELSE resumeUpdates(choiceTextOf(task, choice))

\* Rows getStaleTasks can return: waiting for input and not yet reminded.
\* Their age is not modelled: time passes freely between calls.
getStaleTasks ==
  {t \in TaskIds : tasks[t].status = "needs_input" /\ ~tasks[t].reminder_sent}

-----------------------------------------------------------------------------
(* Anthropic processor: messages, compression, pause and resume *)

StrTurn(role, n) == [role |-> role, text |-> Some(n), blocks |-> <<>>]
BlockTurn(role, bs) == [role |-> role, text |-> None, blocks |-> bs]
Block(type, id, n, payload) == [type |-> type, id |-> id, len |-> n, payload |-> payload]

StringLimit == 2000
ToolResultLimit == 500

compressBlock(block) ==
  IF block.type = "tool_result" THEN [block EXCEPT !.len = Min(@, ToolResultLimit)]
  ELSE IF block.type = "text" THEN [block EXCEPT !.len = Min(@, StringLimit)]
  ELSE block

compressMessages(messages) ==
  [i \in 1..Len(messages) |->
     IF messages[i].text # None
     THEN [messages[i] EXCEPT !.text = Some(Min(The(@), StringLimit))]
     ELSE [messages[i] EXCEPT
             !.blocks = [j \in 1..Len(@) |-> compressBlock(@[j])]]]

askUserMetadata(messages, assistantContent, toolUseId) ==
  [messages_snapshot |-> compressMessages(messages),
   assistant_content |-> assistantContent,
   tool_use_id |-> toolUseId]

\* Mutant: the pause is saved without its snapshot.
askUserUpdates_noMetadata(question, options, messages, assistantContent, toolUseId) ==
  [status |-> "needs_input",
   pending_question |-> Some(question),
   pending_options |-> Some(options),
   current_step |-> Some(Text("ask_user", 0))]

askUserUpdates(question, options, messages, assistantContent, toolUseId) ==
  [status |-> "needs_input",
   pending_question |-> Some(question),
   pending_options |-> Some(options),
   current_step |-> Some(Text("ask_user", 0)),
   metadata |-> Some(askUserMetadata(messages, assistantContent, toolUseId))]

\* The relay's callback handler hands the stored snapshot back to the processor.
ResumeStateOf(taskId, task, choiceText) ==
  [taskId |-> taskId,
   messagesSnapshot |-> The(task.metadata).messages_snapshot,
   assistantContent |-> The(task.metadata).assistant_content,
   userChoice |-> choiceText,
   toolUseId |-> The(task.metadata).tool_use_id]

UserChose(choiceText) == "User chose: " \o choiceText

\* Mutant: a resumed call starts over from the prompt.
initialMessages_fromPrompt(userMessage, resumeState) ==
  IF resumeState # None
  THEN LET rs == The(resumeState)
       IN <<StrTurn("user", userMessage)>>
          \o <<BlockTurn("user",
                 <<Block("tool_result", rs.toolUseId, 20, UserChose(rs.userChoice))>>)>>
  ELSE <<StrTurn("user", userMessage)>>

initialMessages(userMessage, resumeState) ==
  IF resumeState # None
  THEN LET rs == The(resumeState)
       IN rs.messagesSnapshot
          \o <<BlockTurn("assistant", rs.assistantContent)>>
          \o <<BlockTurn("user",
                 <<Block("tool_result", rs.toolUseId, 20, UserChose(rs.userChoice))>>)>>
  ELSE <<StrTurn("user", userMessage)>>

IdleInv == [active |-> FALSE, resumed |-> None, calls |-> 0, messages |-> <<>>]

-----------------------------------------------------------------------------
(* Actions of the task engine *)

SessionIds == {None, Some("sess-1")}
Choices == {"cancel", "1"}
UserMessageLens == {12, 2001}
ToolResultLens == {501}
ToolInputLens == {5000}

\* What the store and Telegram can do during a pause.  The store's
\* functions report a failure by their return value, as createTask does
\* with null.
ResponseEnvs == {"ok", "writeFalse", "sendFails"}
AskUserEnvs == {"ok", "createNull", "writeFalse", "sendFails"}

NoOp == [op |-> "none", pause |-> FALSE, persisted |-> FALSE, sessionId |-> None,
         shown |-> "nothing", threw |-> FALSE]

TaskFrame ==
  UNCHANGED <<lockVars, runVars, queueVars, clsVars, kbVars, streamVars,
              authVars, loopVars, chatVars, monVars>>

InitTask ==
  /\ tasks = [t \in TaskIds |-> NoTask]
  /\ inv = IdleInv
  /\ pauseHist = [t \in TaskIds |-> <<>>]
  /\ reminders = [t \in TaskIds |-> 0]
  /\ lastOp = NoOp

\* The relay creates a task for a message it hands to the CLI engine.
CreateTask ==
  /\ TaskFrame
  /\ FreeIds # {}
  /\ tasks' = [tasks EXCEPT ![NewId] = createTask("prompt", "local")]
  /\ UNCHANGED <<inv, pauseHist, reminders, lastOp>>

\* handleTaskResponse(taskId, claudeOutput, sessionId): the relay passes the
\* CLI engine's output for a running task it created for that engine; the
\* output is classified and the task paused or completed.
\* The relay passes its ctx.  env is what the store and Telegram do during
\* the call:
\*   ok           the write and the send succeed
\*   writeFalse   updateTask reports a failure
\*   sendFails    ctx.reply rejects with and without parse_mode
HandleTaskResponse(t, output, sessionId, env) ==
  /\ TaskFrame
  /\ Exists(t)
  /\ tasks[t].status = "running"
  /\ tasks[t].processed_by = "local"
  /\ LET parsed == Classified[output]
         updates == handleTaskResponseUpdates(parsed, sessionId)
         pause == updates["status"] = "needs_input"
         written == env \in {"ok", "sendFails"}
     IN /\ env = "sendFails" => pause
        /\ tasks' = IF written THEN [tasks EXCEPT ![t] = updateTask(@, updates)]
                    ELSE tasks
        /\ lastOp' = [op |-> "handleTaskResponse", pause |-> pause,
                      persisted |-> written, sessionId |-> sessionId,
                      shown |-> IF pause /\ env \in {"ok", "writeFalse"}
                                THEN "buttons" ELSE "nothing",
                      threw |-> env = "sendFails"]
  /\ UNCHANGED <<inv, pauseHist, reminders>>

\* handleTaskCallback("atask:<t>:<choice>") and, for a task paused by
\* ask_user, the resumed processWithAnthropic call the relay makes with it.
HandleTaskCallback(t, choice) ==
  /\ TaskFrame
  /\ getTaskById(t) # None
  /\ LET task == The(getTaskById(t))
         resumes == choice # "cancel" /\ task.metadata # None
     IN /\ resumes => ~inv.active
        /\ tasks' = [tasks EXCEPT ![t] =
             updateTask(@, handleTaskCallbackUpdates(task, choice))]
        /\ inv' = IF resumes
                  THEN [active |-> TRUE, resumed |-> Some(t), calls |-> 0,
                        messages |-> initialMessages(0,
                          Some(ResumeStateOf(t, task, choiceTextOf(task, choice))))]
                  ELSE inv
  /\ reminders' = [reminders EXCEPT ![t] = 0]
  /\ UNCHANGED <<pauseHist, lastOp>>

\* What can happen to one stale task in the loop of checkStaleTasks:
\*   sendThrows   fetch rejects, the catch block logs, nothing is written
\*   sent         the reminder is sent and reminder_sent is written
\*   rejected     Telegram answers with an error status: fetch resolves,
\*                no reminder is shown, reminder_sent is written
\*   writeFails   the reminder is sent and the write of reminder_sent fails
ReminderOutcomes == {"sendThrows", "sent", "rejected", "writeFails"}
ReminderShown(o) == o \in {"sent", "writeFails"}
ReminderMarked(o) == o \in {"sent", "rejected"}

\* checkStaleTasks(botToken, chatId, thresholdMs): one pass over the rows
\* getStaleTasks returns.
CheckStaleTasks(outcome) ==
  /\ TaskFrame
  /\ getStaleTasks # {}
  /\ \A t \in getStaleTasks : reminders[t] < MaxReminders
  /\ tasks' = [t \in TaskIds |->
       IF t \in getStaleTasks /\ ReminderMarked(outcome[t])
       THEN updateTask(tasks[t], [reminder_sent |-> TRUE])
       ELSE tasks[t]]
  /\ reminders' = [t \in TaskIds |->
       IF t \in getStaleTasks /\ ReminderShown(outcome[t])
       THEN reminders[t] + 1 ELSE reminders[t]]
  /\ UNCHANGED <<inv, pauseHist, lastOp>>

\* processWithAnthropic(userMessage, ...) without resume state.
ProcessStart(n) ==
  /\ TaskFrame
  /\ ~inv.active
  /\ inv' = [active |-> TRUE, resumed |-> None, calls |-> 0,
             messages |-> initialMessages(n, None)]
  /\ UNCHANGED <<tasks, pauseHist, reminders, lastOp>>

ToolId(pos) == 10 * Len(inv.messages) + pos

\* One loop iteration ending the turn: the text is returned.
EngineEndTurn ==
  /\ TaskFrame
  /\ inv.active
  /\ inv' = IdleInv
  /\ UNCHANGED <<tasks, pauseHist, reminders, lastOp>>

\* One loop iteration whose response calls an ordinary tool.
\* textLen is the length of the response's text block, inputLen the size of
\* the tool call's input, resultLen the length of the tool's result.
EngineToolUse(textLen, inputLen, resultLen) ==
  /\ TaskFrame
  /\ inv.active
  /\ inv.calls < MaxIterations
  /\ LET content == <<Block("text", 0, textLen, ""),
                      Block("tool_use", ToolId(1), inputLen, "")>>
         toolResults == <<Block("tool_result", ToolId(1), resultLen, "")>>
     IN inv' = [inv EXCEPT !.calls = @ + 1,
                  !.messages = @ \o <<BlockTurn("assistant", content),
                                     BlockTurn("user", toolResults)>>]
  /\ UNCHANGED <<tasks, pauseHist, reminders, lastOp>>

CustomOptions ==
  <<[label |-> "Send it", value |-> "1"],
    [label |-> "Discard", value |-> "2"]>>
\* The tool's schema puts no limit on the number of options.
ManyOptions ==
  [i \in 1..(MaxOptions + 1) |->
     [label |-> "Option " \o ToString(i), value |-> ToString(i)]]
AskOptions == {None, Some(CustomOptions), Some(ManyOptions)}
\* How many other tools the response that calls ask_user calls before it.
OtherToolCalls == {0, 1}

\* What the ask_user pause returns or shows, by what the store and Telegram
\* did: the question with buttons, the question as the returned text, or
\* the text built by the catch block of the loop.
askUserShown(env) ==
  IF env \in {"ok", "writeFalse"} THEN "buttons"
  ELSE IF env = "createNull" THEN "question"
  ELSE "errorText"

\* One loop iteration whose response calls ask_user, after others other
\* tools whose results are dropped with the iteration: the loop pauses, a
\* task is created and put into needs_input with the snapshot.  env is what
\* the store and Telegram do during the pause:
\*   ok            createTask, updateTask and the send succeed
\*   createNull    createTask returns null
\*   writeFalse    updateTask reports a failure
\*   sendFails     ctx.reply rejects with and without parse_mode
EngineAskUser(inputOptions, others, env) ==
  /\ TaskFrame
  /\ inv.active
  /\ FreeIds # {}
  /\ LET content == [i \in 1..(others + 1) |-> Block("tool_use", ToolId(i), 0, "")]
         toolUseId == ToolId(others + 1)
         options == IF inputOptions # None THEN The(inputOptions) ELSE YesNoOptions
         id == NewId
         created == env # "createNull"
         written == env \in {"ok", "sendFails"}
         row == createTask("prompt", "vps")
     IN /\ tasks' = IF written
                    THEN [tasks EXCEPT ![id] =
                           updateTask(row,
                             askUserUpdates("question", options, inv.messages,
                                            content, toolUseId))]
                    ELSE IF created THEN [tasks EXCEPT ![id] = row]
                    ELSE tasks
        /\ pauseHist' = IF written
                        THEN [pauseHist EXCEPT ![id] =
                                inv.messages \o <<BlockTurn("assistant", content)>>]
                        ELSE pauseHist
        /\ lastOp' = [op |-> "ask_user", pause |-> TRUE, persisted |-> written,
                      sessionId |-> None,
                      shown |-> askUserShown(env), threw |-> FALSE]
  /\ inv' = IdleInv
  /\ UNCHANGED reminders

NextTask ==
  \/ CreateTask
  \/ \E t \in TaskIds, o \in EngineOutputs, sid \in SessionIds, e \in ResponseEnvs :
       HandleTaskResponse(t, o, sid, e)
  \/ \E t \in TaskIds, c \in Choices : HandleTaskCallback(t, c)
  \/ \E o \in [TaskIds -> ReminderOutcomes] : CheckStaleTasks(o)
  \/ \E n \in UserMessageLens : ProcessStart(n)
  \/ EngineEndTurn
  \/ \E n \in UserMessageLens, i \in ToolInputLens, r \in ToolResultLens :
       EngineToolUse(n, i, r)
  \/ \E o \in AskOptions, n \in OtherToolCalls, e \in AskUserEnvs :
       EngineAskUser(o, n, e)

-----------------------------------------------------------------------------
(* Properties of the task engine *)

Resuming == inv.active /\ inv.resumed # None /\ inv.calls = 0
ResumedTask == The(inv.resumed)
AskingTurn(t) == pauseHist[t][Len(pauseHist[t])]
\* The ask_user call is the last block of the asking turn.
AskUseId(t) == AskingTurn(t).blocks[Len(AskingTurn(t).blocks)].id
SyntheticTurn(t) ==
  BlockTurn("user",
    <<Block("tool_result", AskUseId(t), 20,
            UserChose(The(tasks[t].user_response)))>>)

\* C1 as stated: the message list handed to the resumed engine call is
\* exactly the message history at the pause plus one synthetic turn
\* carrying the user's choice.
C1_ResumeExactHistory ==
  Resuming => inv.messages = pauseHist[ResumedTask] \o <<SyntheticTurn(ResumedTask)>>

\* A stored copy of a turn: same role and shape, string and text content
\* cut to 2000 characters, tool results to 500.
IsCompressedCopy(copy, orig) ==
  /\ copy.role = orig.role
  /\ (orig.text = None) = (copy.text = None)
  /\ orig.text # None => The(copy.text) = Min(The(orig.text), 2000)
  /\ Len(copy.blocks) = Len(orig.blocks)
  /\ \A j \in 1..Len(orig.blocks) :
       /\ copy.blocks[j].type = orig.blocks[j].type
       /\ copy.blocks[j].id = orig.blocks[j].id
       /\ copy.blocks[j].payload = orig.blocks[j].payload
       /\ copy.blocks[j].len =
            IF orig.blocks[j].type = "tool_result" THEN Min(orig.blocks[j].len, 500)
            ELSE IF orig.blocks[j].type = "text" THEN Min(orig.blocks[j].len, 2000)
            ELSE orig.blocks[j].len

\* C1 amended: the message list handed to the resumed engine call has one
\* turn per turn of the pause-time history, in the same order, each earlier
\* turn a compressed copy, the asking assistant turn unchanged, followed by
\* exactly one synthetic tool_result turn carrying the user's choice; it is
\* never the original prompt alone and never has fewer turns.
C1_ResumeCompressedHistory ==
  Resuming =>
    LET t == ResumedTask
        n == Len(pauseHist[t])
    IN /\ Len(inv.messages) = n + 1
       /\ \A i \in 1..(n - 1) : IsCompressedCopy(inv.messages[i], pauseHist[t][i])
       /\ inv.messages[n] = AskingTurn(t)
       /\ inv.messages[n + 1] = SyntheticTurn(t)

\* A resumed call whose pause-time history held a turn that was cut.
C1_Witness ==
  /\ Resuming
  /\ \E i \in 1..Len(pauseHist[ResumedTask]) :
       /\ pauseHist[ResumedTask][i].text # None
       /\ The(pauseHist[ResumedTask][i].text) > 2000
  /\ Len(inv.messages) >= 4

Terminal(row) == row.status \in {"completed", "failed"}

\* C2: once a task is completed or failed, no operation writes to it again.
C2_TerminalNeverWritten ==
  [][\A t \in TaskIds : Terminal(tasks[t]) => tasks'[t] = tasks[t]]_vars

\* C3: a task's pendingQuestion is non-null iff its status is needs_input.
C3_PendingQuestionIffNeedsInput ==
  \A t \in TaskIds :
    Exists(t) => ((tasks[t].pending_question # None) <=> (tasks[t].status = "needs_input"))

WasCancelled(row) == row.status = "failed" /\ row.result = Some(CancelledResult)

\* C10: handleChoice(taskId, "cancel") moves the task to failed with result
\* "Cancelled by user"; a second cancel of the same task changes nothing.
C10_CancelOnce ==
  [][\A t \in TaskIds :
       HandleTaskCallback(t, "cancel") =>
         /\ WasCancelled(tasks'[t])
         /\ WasCancelled(tasks[t]) => tasks'[t] = tasks[t]]_vars

\* A task cancelled while it was waiting for input.
C10_Witness ==
  \E t \in TaskIds : WasCancelled(tasks[t]) /\ tasks[t].pending_options # None

\* C11: remindStale sends at most one reminder per task across repeated
\* calls until the task's status changes away from needs_input.
C11_OneReminderPerPause ==
  \A t \in TaskIds : tasks[t].status = "needs_input" => reminders[t] <= 1

\* C12: for a token other than cancel, handleChoice resolves the token to
\* the matching option's label (the raw token when no option matches), sets
\* status to running and userResponse to that label, and clears
\* pendingQuestion and pendingOptions.
C12_ChoiceResolvedAndCleared ==
  [][\A t \in TaskIds : \A c \in Choices \ {"cancel"} :
       HandleTaskCallback(t, c) =>
         /\ tasks'[t].status = "running"
         /\ tasks'[t].user_response = Some(choiceTextOf(tasks[t], c))
         /\ tasks'[t].pending_question = None
         /\ tasks'[t].pending_options = None]_vars

Pauses(output) ==
  Classified[output].needsInput /\ Len(Classified[output].options) >= 1

C14_PauseWriteFailureFallsBack ==
  (lastOp.op # "none" /\ lastOp.pause /\ ~lastOp.persisted) =>
    (lastOp.shown = "question" /\ ~lastOp.threw)

\* C15: if a task's resumeState is missing when handleChoice is invoked with
\* a choice, the task transitions to failed with a descriptive result and
\* no resume is attempted.
C15_MissingResumeStateFails ==
  [][\A t \in TaskIds : \A c \in Choices \ {"cancel"} :
       (HandleTaskCallback(t, c) /\ tasks[t].metadata = None) =>
         /\ tasks'[t].status = "failed"
         /\ tasks'[t].result # None
         /\ tasks'[t].result # tasks[t].result
         /\ inv' = inv]_vars

\* C21: a task's sessionId, once set, is never cleared by any later
\* operation, over any number of pause and resume cycles of the task.
C21_SessionIdNeverCleared ==
  [][\A t \in TaskIds :
       (Exists(t) /\ tasks[t].session_id # None) => tasks'[t].session_id # None]_vars

\* A task that was paused with a session id, resumed by a tap, and then
\* given a response with a session id of null.
C21_Witness ==
  \E t \in TaskIds :
    /\ Exists(t)
    /\ tasks[t].session_id # None
    /\ tasks[t].user_response # None
    /\ tasks[t].status \in {"needs_input", "completed"}
    /\ lastOp.op = "handleTaskResponse" /\ lastOp.persisted
    /\ lastOp.sessionId = None

\* C22: for every task in needs_input, pendingOptions is an ordered list of
\* at most 6 {label, value} entries, whichever path paused the task.
C22_PendingOptionsCapped ==
  \A t \in TaskIds :
    (Exists(t) /\ tasks[t].status = "needs_input") =>
      /\ tasks[t].pending_options # None
      /\ Len(The(tasks[t].pending_options)) <= MaxOptions
      /\ \A i \in 1..Len(The(tasks[t].pending_options)) :
           DOMAIN The(tasks[t].pending_options)[i] = {"label", "value"}

\* The stored copy of one turn is small: its string content and each of its
\* blocks is at most StringLimit characters.
SmallTurn(turn) ==
  /\ turn.text # None => The(turn.text) <= StringLimit
  /\ \A j \in 1..Len(turn.blocks) : turn.blocks[j].len <= StringLimit

\* C23: the message history stored in resumeState is size-bounded whatever
\* the size of any turn's content.
C23_StoredHistoryBounded ==
  \A t \in TaskIds :
    (Exists(t) /\ tasks[t].metadata # None) =>
      LET m == The(tasks[t].metadata)
      IN /\ \A i \in 1..Len(m.messages_snapshot) : SmallTurn(m.messages_snapshot[i])
         /\ \A j \in 1..Len(m.assistant_content) :
              m.assistant_content[j].len <= StringLimit

ExampleOptions ==
  <<[label |-> "1. Ship now", value |-> "1"],
    [label |-> "2. Wait a week", value |-> "2"]>>

\* C26 as stated: for the output "Which do you prefer?\n1. Ship now\n2. Wait
\* a week" the classifier returns needsInput = true with the two options and
\* the task transitions to needs_input.
C26_QuestionFirstPauses ==
  [][\A t \in TaskIds, sid \in SessionIds :
       HandleTaskResponse(t, OutQuestionFirst, sid, "ok") =>
         /\ Classified[OutQuestionFirst].needsInput
         /\ Classified[OutQuestionFirst].options = ExampleOptions
         /\ tasks'[t].status = "needs_input"]_vars

\* C26 amended: for the output "1. Ship now\n2. Wait a week\nWhich one is
\* it?", whose last line is the question, the classifier returns needsInput
\* = true with the two options and the task transitions to needs_input with
\* them; for the output with the question line first it finds the same two
\* options, returns needsInput = false and the task is completed.
C26_QuestionLastPauses ==
  [][\A t \in TaskIds, sid \in SessionIds :
       /\ HandleTaskResponse(t, OutNumbered, sid, "ok") =>
            /\ Classified[OutNumbered].needsInput
            /\ Classified[OutNumbered].question = Some("Which one is it?")
            /\ Classified[OutNumbered].options = ExampleOptions
            /\ tasks'[t].status = "needs_input"
            /\ tasks'[t].pending_options = Some(ExampleOptions)
       /\ HandleTaskResponse(t, OutQuestionFirst, sid, "ok") =>
            /\ ~Classified[OutQuestionFirst].needsInput
            /\ Classified[OutQuestionFirst].options = ExampleOptions
            /\ tasks'[t].status = "completed"]_vars

\* A task paused by handleTaskResponse with the two options of the example.
C26_Witness ==
  \E t \in TaskIds :
    /\ Exists(t)
    /\ tasks[t].status = "needs_input"
    /\ tasks[t].processed_by = "local"
    /\ tasks[t].pending_question = Some("Which one is it?")
    /\ tasks[t].pending_options = Some(ExampleOptions)
    /\ lastOp.op = "handleTaskResponse" /\ lastOp.shown = "buttons"

\* C16: no exception propagates out of an operation of the task engine:
\* every failure of the store or of a send is caught.
C16_NoExceptionPropagates == ~lastOp.threw

\* C32: each pause is resumed at most once: handleChoice moves a task to
\* running only when it is in needs_input; a tap on a task that is already
\* running, completed or failed writes nothing and starts no resumed
\* engine invocation.
C32_ResumedAtMostOnce ==
  [][\A t \in TaskIds : \A c \in Choices \ {"cancel"} :
       (HandleTaskCallback(t, c) /\ tasks[t].status # "needs_input") =>
         /\ tasks'[t] = tasks[t]
         /\ inv' = inv]_vars

\* C34: in the message list of a resumed invocation every tool_use block
\* of the restored assistant turn has a matching tool_result in the user
\* turn that follows it, also when the turn that called ask_user called
\* other tools.
C34_ToolUseAnswered ==
  Resuming =>
    LET n == Len(inv.messages)
        restored == inv.messages[n - 1].blocks
        results == inv.messages[n].blocks
    IN \A j \in 1..Len(restored) :
         restored[j].type = "tool_use" =>
           \E k \in 1..Len(results) :
             /\ results[k].type = "tool_result"
             /\ results[k].id = restored[j].id

\* C35: the paused flag handleTaskResponse returns is true if and only if
\* the task's status after the call is needs_input.
C35_PausedFlagIsStatus ==
  [][\A t \in TaskIds, o \in EngineOutputs, sid \in SessionIds :
       HandleTaskResponse(t, o, sid, "ok") =>
         (handleTaskResponseReturn(Classified[o]).needsInput
            <=> tasks'[t].status = "needs_input")]_vars

\* A running row that was paused, never completed or cancelled, and given
\* a choice: its last step into running was a choice made in needs_input.
ResumedByChoice(row) ==
  /\ row.status = "running"
  /\ row.current_step # None
  /\ row.result = None
  /\ row.user_response # None

\* C33: a task that left needs_input through a choice other than cancel
\* reaches completed, failed or needs_input again once the answer of its
\* resumed engine invocation has been handled: it does not stay running.
C33_ResumedTaskLeavesRunning ==
  [][\A t \in TaskIds, o \in EngineOutputs, sid \in SessionIds, e \in ResponseEnvs :
       (HandleTaskResponse(t, o, sid, e) /\ ResumedByChoice(tasks[t])) =>
         tasks'[t].status \in {"completed", "failed", "needs_input"}]_vars

-----------------------------------------------------------------------------
(* The classifier on its own: one call of parseClaudeResponse *)

ClassifierFrame ==
  UNCHANGED <<taskVars, lockVars, runVars, queueVars, kbVars, streamVars,
              authVars, loopVars, chatVars, monVars>>

NoCall == [pc |-> "idle", head |-> "", n |-> 0, tail |-> "", parsed |-> None]

IdleClassifier == cls = NoCall

InitClassifier ==
  cls \in {[pc |-> "input", head |-> h, n |-> n, tail |-> t, parsed |-> None] :
             h \in Heads, n \in 0..MaxNumbered, t \in Tails}

\* parseClaudeResponse(output)
Classify ==
  /\ ClassifierFrame
  /\ cls.pc = "input"
  /\ cls' = [cls EXCEPT !.pc = "parsed",
               !.parsed = Some(Classified[GeneratedOutput(cls.head, cls.n, cls.tail)])]

NextClassifier == Classify

\* What the generated lines are: the ones that end with ? and the ones
\* that hold a choice-marker phrase.
QuestionLines == {"Which do you prefer?", "Which one is it?", "Should I go ahead?"}
MarkerLines == {"Which do you prefer?", "Should I go ahead?", "Please choose one."}
LastNonEmptyLine ==
  IF cls.tail # "" THEN cls.tail
  ELSE IF cls.n > 0 THEN optionLine(cls.n)
  ELSE cls.head
HasMarkerLine == cls.head \in MarkerLines \/ cls.tail \in MarkerLines

\* C24: the classifier returns needsInput = true only if the last non-empty
\* line ends with ? and either at least 2 numbered options were found or
\* the text holds a choice-marker phrase; a response ending in ? with
\* exactly 1 numbered item and no marker phrase gives needsInput = false,
\* and the same response with 2 numbered items gives needsInput = true.
C24_NeedsInputConditions ==
  cls.pc = "parsed" =>
    LET endsWithQuestion == LastNonEmptyLine \in QuestionLines
        needsInput == The(cls.parsed).needsInput
    IN /\ needsInput => (endsWithQuestion /\ (cls.n >= 2 \/ HasMarkerLine))
       /\ (endsWithQuestion /\ cls.n = 1 /\ ~HasMarkerLine) => ~needsInput
       /\ (endsWithQuestion /\ cls.n = 2 /\ ~HasMarkerLine) => needsInput

\* The response "1. Option 1", "2. Option 2", "Which one is it?" classified.
C24_Witness ==
  /\ cls.pc = "parsed"
  /\ cls.head = "" /\ cls.n = 2 /\ cls.tail = "Which one is it?"
  /\ The(cls.parsed).needsInput
  /\ The(cls.parsed).question = Some("Which one is it?")

\* C25: the classifier never returns more than 6 options; a response with
\* 9 numbered items yields exactly 6 options.
C25_AtMostSixOptions ==
  cls.pc = "parsed" =>
    /\ Len(The(cls.parsed).options) <= 6
    /\ cls.n = 9 => Len(The(cls.parsed).options) = 6

\* A response with 9 numbered items and a closing question, classified.
C25_Witness ==
  /\ cls.pc = "parsed"
  /\ cls.n = 9 /\ cls.tail = "Which one is it?"
  /\ The(cls.parsed).needsInput
  /\ The(cls.parsed).options[6] = [label |-> "6. Option 6", value |-> "6"]

-----------------------------------------------------------------------------
(* Inline keyboard and callback payload: buildTaskKeyboard and the parsing *)
(* at the head of handleTaskCallback                                       *)

KeyboardFrame ==
  UNCHANGED <<taskVars, lockVars, runVars, queueVars, clsVars, streamVars,
              authVars, loopVars, chatVars, monVars>>

\* Task ids are UUIDs generated by the database: they hold no colon.
KeyboardTaskIds == {"0b9d6f1e-52c7", "7f3c2a10-9e44"}

\* Option lists ask_user can be called with, besides the ones above: an
\* empty list, an option whose value is the word cancel, and a value with
\* colons.
SendOrCancelOptions ==
  <<[label |-> "Send it", value |-> "send"],
    [label |-> "Cancel the meeting", value |-> "cancel"]>>
TimeOptions ==
  <<[label |-> "At 10:30", value |-> "10:30"],
    [label |-> "At 14:00", value |-> "14:00:00"]>>

\* The lists a keyboard is built from: the classifier's and ask_user's.
OptionLists ==
  {Classified[o].options : o \in EngineOutputs}
  \cup {The(a) : a \in AskOptions \ {None}}
  \cup {YesNoOptions, <<>>, SendOrCancelOptions, TimeOptions}

\* `atask:${taskId}:${value}`
callbackData(taskId, value) == "atask:" \o taskId \o ":" \o value

\* An InlineKeyboard is its list of rows; it starts with one empty row.
NewKeyboard == <<<<>>>>

\* keyboard.text(label, data): a button is added to the last row
keyboardText(rows, label, data) ==
  [rows EXCEPT ![Len(rows)] = Append(@, [text |-> label, callback_data |-> data])]

\* Mutant: no new row is started.
keyboardRow_none(rows) == rows

\* keyboard.row(): a new row is started
keyboardRow(rows) == Append(rows, <<>>)

\* for (const opt of options) keyboard.text(...).row()
RECURSIVE addOptions(_, _, _)
addOptions(rows, taskId, options) ==
  IF options = <<>> THEN rows
  ELSE addOptions(
         keyboardRow(keyboardText(rows, Head(options).label,
                                  callbackData(taskId, Head(options).value))),
         taskId, Tail(options))

buildTaskKeyboard(taskId, options) ==
  keyboardText(addOptions(NewKeyboard, taskId, options),
               "Cancel task", callbackData(taskId, "cancel"))

\* The head of handleTaskCallback: null, or the task id and the choice
parseCallbackData(data) ==
  LET parts == split(data, ":")
  IN IF Len(parts) < 3 \/ parts[1] # "atask" THEN None
     ELSE Some([taskId |-> parts[2],
                choice |-> join(SubSeq(parts, 3, Len(parts)), ":")])

NoKeyboard ==
  [pc |-> "idle", taskId |-> "", options |-> <<>>, rows |-> <<>>,
   row |-> 0, col |-> 0, parsed |-> None, cancelled |-> FALSE]

IdleKeyboard == kb = NoKeyboard

InitKeyboard ==
  kb \in {[NoKeyboard EXCEPT !.pc = "options", !.taskId = t, !.options = o] :
            t \in KeyboardTaskIds, o \in OptionLists}

\* buildTaskKeyboard(taskId, options)
BuildKeyboard ==
  /\ KeyboardFrame
  /\ kb.pc = "options"
  /\ kb' = [kb EXCEPT !.pc = "shown",
              !.rows = buildTaskKeyboard(kb.taskId, kb.options)]

\* The user taps the button at row i, column j; Telegram sends its
\* callback data.
Tap(i, j) ==
  /\ KeyboardFrame
  /\ kb.pc = "shown"
  /\ i \in 1..Len(kb.rows) /\ j \in 1..Len(kb.rows[i])
  /\ kb' = [kb EXCEPT !.pc = "tapped", !.row = i, !.col = j]

\* handleTaskCallback(callbackData) up to its cancel test
HandleCallback ==
  /\ KeyboardFrame
  /\ kb.pc = "tapped"
  /\ LET parsed == parseCallbackData(kb.rows[kb.row][kb.col].callback_data)
     IN kb' = [kb EXCEPT !.pc = "handled", !.parsed = parsed,
                 !.cancelled = parsed # None /\ The(parsed).choice = "cancel"]

NextKeyboard ==
  \/ BuildKeyboard
  \/ \E i \in 1..Len(kb.rows) : \E j \in 1..Len(kb.rows[i]) : Tap(i, j)
  \/ HandleCallback

\* C27: each option is one button in its own row, in the order supplied,
\* and the cancel button is always present and always last, for every
\* option list, the empty list too.
C27_RowsThenCancel ==
  kb.pc \in {"shown", "tapped", "handled"} =>
    LET n == Len(kb.options)
    IN /\ Len(kb.rows) = n + 1
       /\ \A i \in 1..n :
            /\ Len(kb.rows[i]) = 1
            /\ kb.rows[i][1].text = kb.options[i].label
       /\ Len(kb.rows[n + 1]) = 1
       /\ kb.rows[n + 1][1].text = "Cancel task"

\* The keyboard built from the empty list.
C27_Witness ==
  /\ kb.pc = "shown"
  /\ kb.options = <<>>
  /\ Len(kb.rows) = 1 /\ kb.rows[1][1].text = "Cancel task"

TappedOption == kb.row <= Len(kb.options)

\* C28: the payload built for (taskId, chosenValue) is parsed back to the
\* same taskId and the same chosenValue, and a tap on an option is never
\* taken for a tap on cancel.
C28_PayloadRoundTrip ==
  (kb.pc = "handled" /\ TappedOption) =>
    /\ kb.parsed # None
    /\ The(kb.parsed).taskId = kb.taskId
    /\ The(kb.parsed).choice = kb.options[kb.row].value
    /\ ~kb.cancelled

-----------------------------------------------------------------------------
(* Process guard: bot.lock with heartbeat and stale takeover.  Time is in  *)
(* seconds and advances in steps of TickSeconds.                           *)

MaxProcs == 2
MaxTime == 180
TickSeconds == 30
StaleSeconds == 90
\* Mutant: the heartbeat comes every other minute.
HeartbeatSeconds_slow == 60 + 60

HeartbeatSeconds == 60

Procs == 1..MaxProcs
NoLock == [exists |-> FALSE, pid |-> 0, mtime |-> 0]
LockFrame ==
  UNCHANGED <<taskVars, runVars, queueVars, clsVars, kbVars, streamVars,
              authVars, loopVars, chatVars, monVars>>

\* A process that is not running.  sawLock, sawAge and sawPid are what the
\* stat of its last acquireLock found, ret what that acquireLock returned,
\* ioFailed whether a file operation of it failed.
NoProc ==
  [pc |-> "down", nextBeat |-> 0, sawLock |-> FALSE, sawAge |-> 0, sawPid |-> 0,
   ret |-> "none", ioFailed |-> FALSE]

InitLock ==
  /\ lock = NoLock
  /\ procs = [p \in Procs |-> NoProc]
  /\ now = 0

\* Mutant: a lock that exists is never taken over.
lockIsFree_noTakeover(lk, time) == ~lk.exists

\* stat(LOCK_FILE) and the age test of acquireLock: TRUE when the caller
\* may go on to write the lock.
lockIsFree(lk, time) == ~lk.exists \/ ~(time - lk.mtime < StaleSeconds)

writeLock(p, time) == [exists |-> TRUE, pid |-> p, mtime |-> time]

\* launchd (or the user) starts an instance.
Start(p) ==
  /\ LockFrame
  /\ procs[p].pc = "down"
  /\ procs' = [procs EXCEPT ![p] = [NoProc EXCEPT !.pc = "starting"]]
  /\ UNCHANGED <<lock, now>>

\* acquireLock up to its await of writeFile: the lock is statted and its
\* age judged; a fresh lock makes acquireLock return false and the process exit.
AcquireStat(p) ==
  /\ LockFrame
  /\ procs[p].pc = "starting"
  /\ procs' = [procs EXCEPT ![p] =
       [@ EXCEPT !.pc = IF lockIsFree(lock, now) THEN "writing" ELSE "down",
                 !.ret = IF lockIsFree(lock, now) THEN "none" ELSE "false",
                 !.sawLock = lock.exists,
                 !.sawAge = IF lock.exists THEN now - lock.mtime ELSE 0,
                 !.sawPid = lock.pid]]
  /\ UNCHANGED <<lock, now>>

\* acquireLock from writeFile on: the pid is written, acquireLock returns
\* true, the heartbeat interval is set and the bot starts polling.
AcquireWrite(p) ==
  /\ LockFrame
  /\ procs[p].pc = "writing"
  /\ lock' = writeLock(p, now)
  /\ procs' = [procs EXCEPT ![p] =
       [@ EXCEPT !.pc = "active", !.ret = "true", !.nextBeat = now + HeartbeatSeconds]]
  /\ UNCHANGED now

\* The heartbeat interval fires: the lock file is rewritten.
Heartbeat(p) ==
  /\ LockFrame
  /\ procs[p].pc = "active"
  /\ procs[p].nextBeat <= now
  /\ lock' = writeLock(p, now)
  /\ procs' = [procs EXCEPT ![p].nextBeat = now + HeartbeatSeconds]
  /\ UNCHANGED now

\* The process dies without running shutdown; the lock file stays.
Crash(p) ==
  /\ LockFrame
  /\ procs[p].pc = "active"
  /\ procs' = [procs EXCEPT ![p] = NoProc]
  /\ UNCHANGED <<lock, now>>

\* shutdown(signal): the heartbeat is stopped, polling stopped and
\* releaseLock unlinks the lock file.
Shutdown(p) ==
  /\ LockFrame
  /\ procs[p].pc = "active"
  /\ lock' = NoLock
  /\ procs' = [procs EXCEPT ![p] = NoProc]
  /\ UNCHANGED now

\* Time passes; an interval timer that is due fires before it does.
TickLock ==
  /\ LockFrame
  /\ now + TickSeconds <= MaxTime
  /\ \A p \in Procs : procs[p].pc = "active" => now < procs[p].nextBeat
  /\ now' = now + TickSeconds
  /\ UNCHANGED <<lock, procs>>

\* acquireLock when the stat of an existing lock file fails:
\* .catch(() => null) makes it look like no lock.
AcquireStatFails(p) ==
  /\ LockFrame
  /\ procs[p].pc = "starting"
  /\ lock.exists
  /\ procs' = [procs EXCEPT ![p] = [@ EXCEPT !.pc = "writing", !.ioFailed = TRUE]]
  /\ UNCHANGED <<lock, now>>

\* acquireLock when writeFile fails: acquireLock rejects and the start ends.
AcquireWriteFails(p) ==
  /\ LockFrame
  /\ procs[p].pc = "writing"
  /\ procs' = [procs EXCEPT ![p] =
       [@ EXCEPT !.pc = "down", !.ret = "threw", !.ioFailed = TRUE]]
  /\ UNCHANGED <<lock, now>>

NextLock ==
  \/ \E p \in Procs : Start(p)
  \/ \E p \in Procs : AcquireStat(p)
  \/ \E p \in Procs : AcquireWrite(p)
  \/ \E p \in Procs : Heartbeat(p)
  \/ \E p \in Procs : Crash(p)
  \/ \E p \in Procs : Shutdown(p)
  \/ TickLock

\* The lock with file operations that can fail during acquireLock.
NextLockFaults ==
  \/ NextLock
  \/ \E p \in Procs : AcquireStatFails(p)
  \/ \E p \in Procs : AcquireWriteFails(p)

Active == {p \in Procs : procs[p].pc = "active"}

\* C5: at most one relay instance is actively processing messages at any
\* time, for every interleaving of acquire, heartbeat, crash, restart and
\* release across processes.
C5_AtMostOneActive == Cardinality(Active) <= 1

\* C18: acquire() returns true when the existing lock's heartbeat age
\* exceeds 90s and false when it is under 90s, whether the pid in the lock
\* is the caller's or another's.
C18_StaleThreshold ==
  \A p \in Procs :
    procs[p].sawLock =>
      /\ procs[p].sawAge > 90 =>
            /\ procs[p].ret # "false"
            /\ procs[p].pc \in {"writing", "active"}
            /\ procs[p].pc = "active" => procs[p].ret = "true"
      /\ procs[p].sawAge < 90 => (procs[p].ret = "false" /\ procs[p].pc = "down")

\* One process has taken over a stale lock that carried its own pid and
\* another has been refused by the fresh lock of a different pid.
C18_Witness ==
  \E p, q \in Procs :
    /\ p # q
    /\ procs[p].sawLock /\ procs[p].sawAge > 90 /\ procs[p].sawPid = p
    /\ procs[p].ret = "true"
    /\ procs[q].sawLock /\ procs[q].sawAge < 90 /\ procs[q].sawPid = p
    /\ procs[q].ret = "false"

\* C19: while the process that holds the lock is running, the age of its
\* lock, as a competing acquire() computes it, is below 90s at every moment.
C19_LiveLockNeverStale ==
  \A p \in Active :
    (lock.exists /\ lock.pid = p) => now - lock.mtime < 90

\* A running holder whose lock has reached the age of a full heartbeat
\* interval while another instance is about to stat it.
C19_Witness ==
  \E p, q \in Procs :
    /\ p \in Active /\ lock.exists /\ lock.pid = p
    /\ now - lock.mtime = 60
    /\ now >= 120
    /\ procs[q].pc = "starting"

\* C20: if reading or writing the lock fails during acquire(), acquire
\* fails closed: it does not report the lock as acquired and the process
\* does not start.
C20_AcquireFailsClosed ==
  \A p \in Procs :
    procs[p].ioFailed => (procs[p].ret # "true" /\ procs[p].pc # "active")

\* C38: release() during graceful shutdown never removes a lock that
\* another live process has taken over: it removes the lock only if the
\* process shutting down still owns it.
C38_ReleaseOnlyOwnLock ==
  [][\A p \in Procs :
       (Shutdown(p) /\ lock.exists /\ lock.pid # p /\ procs[lock.pid].pc = "active")
         => lock' = lock]_vars

-----------------------------------------------------------------------------
(* Subprocess runner: callClaude and callClaudeStreaming.  Time is counted *)
(* in ticks since the spawn; a timer or continuation that is due runs      *)
(* before the next tick.                                                   *)

MaxClock == 5
Epsilon == 1
Timeouts == {2, 3}
Durations == 1..MaxClock
Modes == {"text", "json", "stream"}
\* What the engine writes to stdout: no error signature; a signature in the
\* text the call returns (in stream mode the result event's text, or the
\* assistant text when there is no result event); a signature elsewhere in
\* the output (in stream mode a line that is not JSON, or an event other
\* than the result).
OutputKinds == {"plain", "signature", "signatureOutsideResult"}
RunFrame ==
  UNCHANGED <<taskVars, lockVars, queueVars, clsVars, kbVars, streamVars,
              authVars, loopVars, chatVars, monVars>>

IdleRun ==
  [pc |-> "idle", mode |-> "text", proc |-> "none", timerArmed |-> FALSE,
   timedOut |-> FALSE, clock |-> 0, timeoutMs |-> 0, duration |-> 0,
   kind |-> "plain", started |-> FALSE, result |-> None, returnedAt |-> 0,
   reply |-> "none"]

InitRun == run = IdleRun

\* Mutant: the timer only raises the flag (a bare race, no kill).
timeoutCallback_noKill(r) == [r EXCEPT !.timedOut = TRUE, !.timerArmed = FALSE]

\* setTimeout(() => { timedOut = true; try { proc.kill(); } catch {} })
timeoutCallback(r) ==
  [r EXCEPT !.timedOut = TRUE, !.timerArmed = FALSE,
            !.proc = IF @ = "running" THEN "killed" ELSE @]

\* The text isClaudeErrorResponse is called with: the whole output in text
\* and json mode, resultText in stream mode.
checkedText(mode, kind) ==
  IF mode = "stream" /\ kind = "signatureOutsideResult" THEN "plain"
  ELSE IF kind = "plain" THEN "plain"
  ELSE "signature"

\* isClaudeErrorResponse(text): text.includes(p) for one of the patterns
isClaudeErrorResponse(text) == text = "signature"

\* Mutant: the output is returned without looking at timedOut.
readResult_ignoreTimeout(r) ==
  [text |-> IF r.started THEN "output" ELSE "",
   isError |-> isClaudeErrorResponse(checkedText(r.mode, r.kind))]

\* What the call returns once stdout has ended.
readResult(r) ==
  IF r.timedOut THEN [text |-> "", isError |-> TRUE]
  ELSE [text |-> IF r.started THEN "output" ELSE "",
        isError |-> r.started /\ isClaudeErrorResponse(checkedText(r.mode, r.kind))]

\* spawn(...) and setTimeout(..., timeoutMs)
Spawn(mode, timeoutMs, duration, kind) ==
  /\ RunFrame
  /\ run.pc = "idle"
  /\ run' = [IdleRun EXCEPT !.pc = "reading", !.mode = mode, !.proc = "running",
               !.timerArmed = TRUE, !.timeoutMs = timeoutMs,
               !.duration = duration, !.kind = kind]

\* The engine starts writing to stdout.
ProcOutput ==
  /\ RunFrame
  /\ run.proc = "running"
  /\ ~run.started
  /\ run' = [run EXCEPT !.started = TRUE]

\* The engine finishes on its own; stdout ends.
ProcExit ==
  /\ RunFrame
  /\ run.proc = "running"
  /\ run.clock >= run.duration
  /\ run' = [run EXCEPT !.proc = "exited"]

\* The timeout timer fires.
TimerFire ==
  /\ RunFrame
  /\ run.timerArmed
  /\ run.clock >= run.timeoutMs
  /\ run' = timeoutCallback(run)

\* stdout has ended: clearTimeout and the return statements after it.
ReadDone ==
  /\ RunFrame
  /\ run.pc = "reading"
  /\ run.proc \in {"exited", "killed"}
  /\ run' = [run EXCEPT !.pc = "returned", !.timerArmed = FALSE,
               !.result = Some(readResult(run)), !.returnedAt = run.clock]

\* Reading stdout throws: the catch block clears the timer and returns.
ReadFails ==
  /\ RunFrame
  /\ run.pc = "reading"
  /\ run' = [run EXCEPT !.pc = "returned", !.timerArmed = FALSE,
               !.result = Some([text |-> "", isError |-> TRUE]),
               !.returnedAt = run.clock]

\* What the fallback chain finds: OpenRouter answers with text, Ollama does.
Backends == [openrouter : BOOLEAN, ollama : BOOLEAN]

\* callFallbackLLM(prompt): the first backend that answers with text, or
\* the trouble-connecting message.
callFallbackLLM(backends) ==
  IF backends.openrouter THEN "openrouter"
  ELSE IF backends.ollama THEN "ollama"
  ELSE "troubleConnecting"

\* Mutant: the result of the engine is passed on as it is.
processReply_noFallback(result, backends) ==
  IF result.text = "" THEN "empty"
  ELSE IF result.isError THEN "errorText"
  ELSE "engineText"

\* processStandard / processStreaming after the call has returned: the text
\* of the final chat event.
processReply(result, backends) ==
  IF result.isError \/ result.text = "" THEN callFallbackLLM(backends)
  ELSE "engineText"

\* The gateway's chat handler takes the result of its call and sends the
\* final event.
Respond(backends) ==
  /\ RunFrame
  /\ run.pc = "returned"
  /\ run.mode \in {"json", "stream"}
  /\ run' = [run EXCEPT !.pc = "replied",
               !.reply = processReply(The(run.result), backends)]

TickRun ==
  /\ RunFrame
  /\ run.pc \in {"reading", "returned"}
  /\ run.proc = "running"
  /\ run.clock < MaxClock
  /\ run.clock < run.duration
  /\ run.timerArmed => run.clock < run.timeoutMs
  /\ run' = [run EXCEPT !.clock = @ + 1]

NextRun ==
  \/ \E m \in Modes, t \in Timeouts, d \in Durations, k \in OutputKinds : Spawn(m, t, d, k)
  \/ ProcOutput
  \/ ProcExit
  \/ TimerFire
  \/ ReadDone
  \/ ReadFails
  \/ \E b \in Backends : Respond(b)
  \/ TickRun

FallbackReplies == {"openrouter", "ollama", "troubleConnecting"}
GatewayCall == run.mode \in {"json", "stream"}

\* C29: whenever the engine output holds an error signature anywhere, the
\* call returns isError = true, in every output mode.
C29_SignatureIsError ==
  (run.pc \in {"returned", "replied"} /\ run.started /\ run.kind # "plain") =>
    The(run.result).isError

-----------------------------------------------------------------------------
(* Progress callbacks of callClaudeStreaming.  Time is Date.now() in       *)
(* milliseconds; the blocks of one event are handled at one instant.       *)

StreamFrame ==
  UNCHANGED <<taskVars, lockVars, runVars, queueVars, clsVars, kbVars,
              authVars, loopVars, chatVars, monVars>>

TOOL_THROTTLE_MS == 2000
FirstTextLen == 30

\* Bounds of the stream model: the clock step, the length of one call and
\* the text accumulated.
TickMs == 500
MaxStreamMs == 5000
MaxText == 60
TextLens == {10, 40}

\* Date.now() when the call starts
StartTime == 1000000

NoStream ==
  [pc |-> "idle", now |-> 0, lastToolProgressAt |-> 0, firstTextSent |-> FALSE,
   textAccumulator |-> 0, onToolStart |-> FALSE, onFirstText |-> FALSE,
   calls |-> <<>>]

IdleStream == stream = NoStream

\* The caller passes each of the two callbacks or leaves it out.
InitStream ==
  stream \in {[NoStream EXCEPT !.pc = "reading", !.now = StartTime,
                 !.onToolStart = t, !.onFirstText = f] : t, f \in BOOLEAN}

\* Mutant: every tool start is reported.
throttlePassed_always(time, last) == TRUE

\* now - lastToolProgressAt >= TOOL_THROTTLE_MS
throttlePassed(time, last) == time - last >= TOOL_THROTTLE_MS

\* A tool_use block of an assistant event
ToolUseBlock ==
  /\ StreamFrame
  /\ stream.pc = "reading"
  /\ stream' =
       IF stream.onToolStart /\ throttlePassed(stream.now, stream.lastToolProgressAt)
       THEN [stream EXCEPT !.lastToolProgressAt = stream.now,
               !.calls = Append(@, [callback |-> "onToolStart", at |-> stream.now])]
       ELSE stream

\* A text block of n characters of an assistant event
TextBlock(n) ==
  /\ StreamFrame
  /\ stream.pc = "reading"
  /\ stream.textAccumulator + n <= MaxText
  /\ LET text == stream.textAccumulator + n
     IN stream' =
          IF ~stream.firstTextSent /\ stream.onFirstText /\ text > FirstTextLen
          THEN [stream EXCEPT !.textAccumulator = text, !.firstTextSent = TRUE,
                  !.calls = Append(@, [callback |-> "onFirstText", at |-> stream.now])]
          ELSE [stream EXCEPT !.textAccumulator = text]

\* Time passes between two chunks of stdout.
TickStream ==
  /\ StreamFrame
  /\ stream.pc = "reading"
  /\ stream.now + TickMs <= StartTime + MaxStreamMs
  /\ stream' = [stream EXCEPT !.now = @ + TickMs]

\* stdout ends.
StreamEnd ==
  /\ StreamFrame
  /\ stream.pc = "reading"
  /\ stream' = [stream EXCEPT !.pc = "done"]

NextStream ==
  \/ ToolUseBlock
  \/ \E n \in TextLens : TextBlock(n)
  \/ TickStream
  \/ StreamEnd

\* C30 as stated: any two consecutive progress callbacks of one streaming
\* call are at least 2 seconds apart.
C30_CallbacksThrottled ==
  \A i \in 1..(Len(stream.calls) - 1) :
    stream.calls[i + 1].at - stream.calls[i].at >= 2000

\* C30 amended: any two onToolStart callbacks of one streaming call are at
\* least 2 seconds apart, and onFirstText is called at most once, at any
\* time.
C30_ToolStartThrottled ==
  \A i, j \in 1..Len(stream.calls) :
    i < j =>
      /\ (stream.calls[i].callback = "onToolStart"
          /\ stream.calls[j].callback = "onToolStart")
         => stream.calls[j].at - stream.calls[i].at >= 2000
      /\ ~(stream.calls[i].callback = "onFirstText"
           /\ stream.calls[j].callback = "onFirstText")

\* A call that reported two tool starts and, less than 2 seconds after one
\* of them, the first text.
C30_Witness ==
  /\ Len(stream.calls) = 3
  /\ stream.calls[1].callback = "onToolStart"
  /\ stream.calls[2].callback = "onFirstText"
  /\ stream.calls[3].callback = "onToolStart"
  /\ stream.calls[2].at - stream.calls[1].at < 2000

-----------------------------------------------------------------------------
(* Gateway request queue: one promise chain per device token *)

MaxTokens == 2
MaxUnits == 2
Tokens == 1..MaxTokens
QueueFrame ==
  UNCHANGED <<taskVars, lockVars, runVars, clsVars, kbVars, streamVars,
              authVars, loopVars, chatVars, monVars>>

InitQueue ==
  /\ queues = [k \in Tokens |-> [inMap |-> FALSE, chain |-> <<>>]]
  /\ conns = [k \in Tokens |-> "new"]

\* Mutant: every unit is chained to a fresh resolved promise.
prevOf_detached(q) == 0

\* connectionQueues.get(deviceToken) || Promise.resolve(): the index of the
\* unit whose promise the new unit is chained to, 0 for a resolved promise.
prevOf(q) == IF q.inMap THEN Len(q.chain) ELSE 0

\* Mutant: the chain has no catch handler.
chainPromise_noCatch(outcome) == outcome

\* prev.then(fn).catch(log): the state of the promise stored in the map
\* once fn has settled with the given outcome.
chainPromise(outcome) == "fulfilled"

PrevSettled(q, i) ==
  IF q.chain[i].prev = 0 THEN TRUE ELSE q.chain[q.chain[i].prev].promise # "pending"
PrevFulfilled(q, i) ==
  IF q.chain[i].prev = 0 THEN TRUE ELSE q.chain[q.chain[i].prev].promise = "fulfilled"

\* handleConnect: the socket is given its device token.
Connect(k) ==
  /\ QueueFrame
  /\ conns[k] = "new"
  /\ conns' = [conns EXCEPT ![k] = "open"]
  /\ UNCHANGED queues

\* handleChat -> enqueue(deviceToken, fn)
Enqueue(k) ==
  /\ QueueFrame
  /\ conns[k] = "open"
  /\ Len(queues[k].chain) < MaxUnits
  /\ queues' = [queues EXCEPT ![k] =
       [inMap |-> TRUE,
        chain |-> Append(@.chain,
          [prev |-> prevOf(@), st |-> "queued", promise |-> "pending"])]]
  /\ UNCHANGED conns

\* The promise a unit is chained to has settled: then() calls fn, or passes
\* a rejection on without calling it.
StartUnit(k, i) ==
  /\ QueueFrame
  /\ i \in 1..Len(queues[k].chain)
  /\ queues[k].chain[i].st = "queued"
  /\ PrevSettled(queues[k], i)
  /\ queues' = [queues EXCEPT ![k].chain[i] =
       IF PrevFulfilled(queues[k], i)
       THEN [@ EXCEPT !.st = "running"]
       ELSE [@ EXCEPT !.st = "skipped", !.promise = chainPromise("rejected")]]
  /\ UNCHANGED conns

\* fn's promise settles.
FinishUnit(k, i, outcome) ==
  /\ QueueFrame
  /\ i \in 1..Len(queues[k].chain)
  /\ queues[k].chain[i].st = "running"
  /\ queues' = [queues EXCEPT ![k].chain[i] =
       [@ EXCEPT !.st = IF outcome = "fulfilled" THEN "done" ELSE "failed",
                 !.promise = chainPromise(outcome)]]
  /\ UNCHANGED conns

\* websocket close: the token's map entries are deleted.
Close(k) ==
  /\ QueueFrame
  /\ conns[k] = "open"
  /\ conns' = [conns EXCEPT ![k] = "closed"]
  /\ queues' = [queues EXCEPT ![k].inMap = FALSE]

NextQueue ==
  \/ \E k \in Tokens : Connect(k)
  \/ \E k \in Tokens : Enqueue(k)
  \/ \E k \in Tokens, i \in 1..MaxUnits : StartUnit(k, i)
  \/ \E k \in Tokens, i \in 1..MaxUnits, o \in {"fulfilled", "rejected"} : FinishUnit(k, i, o)
  \/ \E k \in Tokens : Close(k)

Started(u) == u.st \in {"running", "done", "failed"}
Finished(u) == u.st \in {"done", "failed", "skipped"}

\* C8: units enqueued for the same key run in the order they were enqueued
\* and are never interleaved: a unit has not started unless every unit
\* enqueued before it for that key has finished.
C8_StrictOrder ==
  \A k \in Tokens : \A i, j \in 1..Len(queues[k].chain) :
    (i < j /\ Started(queues[k].chain[j])) => Finished(queues[k].chain[i])

\* The second unit of a key running after the first has finished, while a
\* unit of another key runs at the same time.
C8_Witness ==
  \E k, m \in Tokens :
    /\ k # m
    /\ Len(queues[k].chain) >= 2
    /\ queues[k].chain[1].st = "done"
    /\ queues[k].chain[2].st = "running"
    /\ Len(queues[m].chain) >= 1
    /\ queues[m].chain[1].st = "running"

\* C9: a failure in one queued unit does not prevent the units queued
\* after it from running: no unit is ever passed over, and a unit behind a
\* failed one can start as soon as that one has settled.
C9_FailureDoesNotBlock ==
  \A k \in Tokens : \A i \in 1..Len(queues[k].chain) :
    /\ queues[k].chain[i].st # "skipped"
    /\ (queues[k].chain[i].st = "queued" /\ PrevSettled(queues[k], i))
         => PrevFulfilled(queues[k], i)

\* A unit that ran to completion behind a unit that failed.
C9_Witness ==
  \E k \in Tokens :
    /\ Len(queues[k].chain) >= 2
    /\ queues[k].chain[1].st = "failed"
    /\ queues[k].chain[2].st = "done"

-----------------------------------------------------------------------------


(* The loop of processWithAnthropic on its own: its engine calls, its ways *)
(* out and what it returns                                                 *)

LoopFrame ==
  UNCHANGED <<taskVars, lockVars, runVars, queueVars, clsVars, kbVars, streamVars,
              authVars, chatVars, monVars>>

MAX_ITERATIONS == 15

\* A JavaScript value a function returns: a string, or undefined.
Str(s) == [type |-> "string", value |-> s]
Undefined == [type |-> "undefined", value |-> ""]

IdleLoop == [pc |-> "idle", iterations |-> 0, calls |-> 0, turns |-> 0, ret |-> Undefined]

InitLoop == loop = IdleLoop

\* The joined text blocks of a response that ends the turn.
ResponseTexts == {"", "Done."}
\* err.status of a rejected messages.create: HTTP statuses, or none for a
\* network error.
ApiErrorStatuses == {None, Some(401), Some(429), Some(500)}

\* Mutant: the loop runs once more than MAX_ITERATIONS.
loopContinues_inclusive(iterations) == iterations <= MAX_ITERATIONS

\* while (iterations < MAX_ITERATIONS)
loopContinues(iterations) == iterations < MAX_ITERATIONS

\* return result || "Processed but no response generated."
endTurnResult(result) ==
  IF result = "" THEN "Processed but no response generated." ELSE result

\* The catch block around the loop.
catchResult(status, message) ==
  IF status = Some(401) THEN "API authentication error. Check ANTHROPIC_API_KEY."
  ELSE IF status = Some(429) THEN "Rate limited. Please try again in a moment."
  ELSE "Error: " \o message

\* What the ask_user pause returns, by what the store and Telegram did.
askUserResult(question, env) ==
  IF env = "createNull" THEN question
  ELSE IF env = "sendFails" THEN catchResult(None, "Bad Request")
  ELSE ""

Return(value) == [loop EXCEPT !.pc = "returned", !.ret = value]
\* iterations++ and the await of anthropic.messages.create
EngineCall == [loop EXCEPT !.iterations = @ + 1, !.calls = @ + 1]

\* processWithAnthropic is called, with or without a resume state: the
\* message list starts with the prompt, or with the snapshot, the restored
\* assistant turn and the tool result.
StartLoop(resumed) ==
  /\ LoopFrame
  /\ loop.pc = "idle"
  /\ loop' = [IdleLoop EXCEPT !.pc = "loop", !.turns = IF resumed THEN 3 ELSE 1]

\* stop_reason end_turn or stop_sequence: the text is returned.
RespondEndTurn(text) ==
  /\ LoopFrame
  /\ loop.pc = "loop" /\ loopContinues(loop.iterations)
  /\ loop' = [EngineCall EXCEPT !.pc = "returned", !.ret = Str(endTurnResult(text))]

\* stop_reason tool_use with ordinary tools: executeTool returns a string
\* for every tool, also when the tool fails; the two turns are pushed.
RespondToolUse ==
  /\ LoopFrame
  /\ loop.pc = "loop" /\ loopContinues(loop.iterations)
  /\ loop' = [EngineCall EXCEPT !.turns = @ + 2]

\* stop_reason tool_use with ask_user: the loop pauses.
RespondAskUser(env) ==
  /\ LoopFrame
  /\ loop.pc = "loop" /\ loopContinues(loop.iterations)
  /\ loop' = [EngineCall EXCEPT !.pc = "returned",
                                !.ret = Str(askUserResult("question", env))]

\* Any other stop_reason (max_tokens, pause_turn, refusal): neither branch
\* is taken and the loop goes round with the same messages.
RespondOtherStop ==
  /\ LoopFrame
  /\ loop.pc = "loop" /\ loopContinues(loop.iterations)
  /\ loop' = EngineCall

\* messages.create rejects.
ApiError(status) ==
  /\ LoopFrame
  /\ loop.pc = "loop" /\ loopContinues(loop.iterations)
  /\ loop' = [EngineCall EXCEPT !.pc = "returned",
                                !.ret = Str(catchResult(status, "Connection error."))]

\* The while condition fails.
ExitLoop ==
  /\ LoopFrame
  /\ loop.pc = "loop" /\ ~loopContinues(loop.iterations)
  /\ loop' = Return(Str("Reached maximum iterations. Try a simpler request."))

NextLoop ==
  \/ \E r \in BOOLEAN : StartLoop(r)
  \/ \E t \in ResponseTexts : RespondEndTurn(t)
  \/ RespondToolUse
  \/ \E e \in AskUserEnvs : RespondAskUser(e)
  \/ RespondOtherStop
  \/ \E st \in ApiErrorStatuses : ApiError(st)
  \/ ExitLoop

-----------------------------------------------------------------------------
(* OpenClaw gateway: handleChatSend, one chat.send request per connection *)

ChatFrame ==
  UNCHANGED <<taskVars, lockVars, runVars, queueVars, clsVars, kbVars, streamVars,
              authVars, loopVars, monVars>>

\* Device tokens of two connected AR glasses.
Devices == {"glasses-1", "glasses-2"}

\* The session id the engine reports to a device's request, when it does.
sessionIdFor(d) == "claude-session-of-" \o d
EngineSessionIds(d) == {None, Some(sessionIdFor(d))}

\* A connection with no request yet: pc is the position of handleChatSend,
\* sent the messages written to the socket, engineSid what the engine
\* call of the request returned as its session id, claudeSessionId the
\* field of the request's session.
NoRequest ==
  [pc |-> "idle", sent |-> <<>>, engineSid |-> None, claudeSessionId |-> None]

InitChat ==
  chat = [lastSessionId |-> None, reqs |-> [d \in Devices |-> NoRequest]]

\* sendResponse(ws, requestId, true, { status: "started", runId })
StartedAck == [type |-> "res", state |-> "started", text |-> ""]
\* sendEvent(ws, "chat", { state: "final", text, runId })
FinalEvent(text) == [type |-> "event", state |-> "final", text |-> text]

\* From the final event to the update of the session: the final event is
\* sent, _lastSessionId is read and, when it is set, written to the session.
respond(req, lastSessionId) ==
  [req EXCEPT !.pc = "post",
              !.sent = Append(@, FinalEvent("response")),
              !.claudeSessionId = IF lastSessionId # None THEN lastSessionId ELSE @]

\* The catch block of handleChatSend.
catchChatError(req) ==
  [req EXCEPT !.pc = "done", !.sent = Append(@, FinalEvent("error"))]

\* handleChat accepts a chat.send and the queue runs handleChatSend: the
\* request is acknowledged.
ChatSend(d, images) ==
  /\ ChatFrame
  /\ chat.reqs[d].pc = "idle"
  /\ chat' = [chat EXCEPT !.reqs[d] =
       [@ EXCEPT !.pc = IF images THEN "images" ELSE "prompt",
                 !.sent = <<StartedAck>>]]

\* The images are written before the try block: a failing writeFile is
\* caught per image, a failing mkdir rejects handleChatSend.
WriteImages(d, mkdirOk) ==
  /\ ChatFrame
  /\ chat.reqs[d].pc = "images"
  /\ chat' = [chat EXCEPT !.reqs[d].pc = IF mkdirOk THEN "prompt" ELSE "rejected"]

\* The prompt is built and the user message saved, inside the try block.
BuildPrompt(d, ok) ==
  /\ ChatFrame
  /\ chat.reqs[d].pc = "prompt"
  /\ chat' = [chat EXCEPT !.reqs[d] =
       IF ok THEN [@ EXCEPT !.pc = "engine"] ELSE catchChatError(@)]

\* processStreaming / processStandard after the await of the engine call:
\* _lastSessionId is set; a good result is returned and handleChatSend goes
\* on to the final event, a failed one awaits callFallbackLLM.
EngineDone(d, sid, isError) ==
  /\ ChatFrame
  /\ chat.reqs[d].pc = "engine"
  /\ chat' = [chat EXCEPT
       !.lastSessionId = sid,
       !.reqs[d] = IF isError
                   THEN [@ EXCEPT !.pc = "fallback", !.engineSid = sid]
                   ELSE respond([@ EXCEPT !.engineSid = sid], sid)]

\* callFallbackLLM settles: its text, or the apology when it rejects, is
\* returned and handleChatSend goes on to the final event.
FallbackDone(d) ==
  /\ ChatFrame
  /\ chat.reqs[d].pc = "fallback"
  /\ chat' = [chat EXCEPT !.reqs[d] = respond(@, chat.lastSessionId)]

\* After the final event, still inside the try block: the assistant
\* message is saved and the intents are processed.
PostProcess(d, ok) ==
  /\ ChatFrame
  /\ chat.reqs[d].pc = "post"
  /\ chat' = [chat EXCEPT !.reqs[d] =
       IF ok THEN [@ EXCEPT !.pc = "done"] ELSE catchChatError(@)]

NextChat ==
  \/ \E d \in Devices, i \in BOOLEAN : ChatSend(d, i)
  \/ \E d \in Devices, ok \in BOOLEAN : WriteImages(d, ok)
  \/ \E d \in Devices, ok \in BOOLEAN : BuildPrompt(d, ok)
  \/ \E d \in Devices, e \in BOOLEAN : \E sid \in EngineSessionIds(d) :
       EngineDone(d, sid, e)
  \/ \E d \in Devices : FallbackDone(d)
  \/ \E d \in Devices, ok \in BOOLEAN : PostProcess(d, ok)

Finals(req) == {i \in 1..Len(req.sent) : req.sent[i].state = "final"}

\* C36: the gateway emits exactly one chat event with state final for every
\* accepted chat.send request, after the started acknowledgement, on every
\* path: success, engine failure, failures before or after the engine call.
C36_ExactlyOneFinal ==
  \A d \in Devices :
    chat.reqs[d].pc \in {"done", "rejected"} =>
      /\ Cardinality(Finals(chat.reqs[d])) = 1
      /\ chat.reqs[d].sent[1] = StartedAck

\* C37: the claudeSessionId stored on a session after a chat request is the
\* session id the engine invocation of that same request returned, for
\* every interleaving of requests from different connections.
C37_SessionIdOfSameRequest ==
  \A d \in Devices :
    chat.reqs[d].claudeSessionId # None =>
      chat.reqs[d].claudeSessionId = chat.reqs[d].engineSid

-----------------------------------------------------------------------------
(* TwinMind monitor: runs of main over the unprocessed meetings *)

MonitorFrame ==
  UNCHANGED <<taskVars, lockVars, runVars, queueVars, clsVars, kbVars, streamVars,
              authVars, loopVars, chatVars>>

MaxMeetings == 2
MaxRuns == 2
MaxSummaries == 2

\* Meeting ids in the order of their start_time.
Meetings == 1..MaxMeetings
\* Processes running main at the same time.
Runs == 1..MaxRuns

\* A run that is not started.  todo is what is left of the rows the run
\* fetched, each with the metadata it had when it was fetched.
IdleMonitorRun == [pc |-> "idle", todo |-> <<>>]

\* The table holds meetings that were synced and not yet processed.
InitMonitor ==
  mon = [rows |-> [m \in Meetings |-> [processed |-> FALSE, summary_sent |-> FALSE]],
         runs |-> [r \in Runs |-> IdleMonitorRun],
         sent |-> [m \in Meetings |-> 0]]

RECURSIVE unprocessedFrom(_, _)
\* select ... where processed = false order by start_time
unprocessedFrom(rows, m) ==
  IF m > MaxMeetings THEN <<>>
  ELSE (IF rows[m].processed THEN <<>>
        ELSE <<[meeting_id |-> m, summary_sent |-> rows[m].summary_sent]>>)
       \o unprocessedFrom(rows, m + 1)

fetchUnprocessedMeetings(rows) == unprocessedFrom(rows, 1)

\* The for loop of main goes to the next meeting, or main ends.
nextMeeting(monitorRun) ==
  [pc |-> IF Len(monitorRun.todo) > 1 THEN "summary" ELSE "idle",
   todo |-> Tail(monitorRun.todo)]

\* main up to the for loop: the meetings are fetched.
MonitorStart(r) ==
  /\ MonitorFrame
  /\ mon.runs[r].pc = "idle"
  /\ LET meetings == fetchUnprocessedMeetings(mon.rows)
     IN mon' = [mon EXCEPT !.runs[r] =
          [pc |-> IF meetings = <<>> THEN "idle" ELSE "summary", todo |-> meetings]]

\* processMeeting, step 1: the summary is sent unless the fetched metadata
\* says it was; a failed send ends the meeting as failed.
SendSummary(r, textSent) ==
  /\ MonitorFrame
  /\ mon.runs[r].pc = "summary"
  /\ LET meeting == mon.runs[r].todo[1]
         m == meeting.meeting_id
     IN IF meeting.summary_sent
        THEN mon' = [mon EXCEPT !.runs[r].pc = "visuals"]
        ELSE /\ mon.sent[m] < MaxSummaries
             /\ mon' = IF textSent
                        THEN [mon EXCEPT !.sent[m] = @ + 1, !.runs[r].pc = "metadata"]
                        ELSE [mon EXCEPT !.runs[r] = nextMeeting(@)]

\* updateMetadata(meeting_id, { summary_sent: true }): the result of the
\* update is not read, a failed write goes unnoticed.
UpdateMetadata(r, written) ==
  /\ MonitorFrame
  /\ mon.runs[r].pc = "metadata"
  /\ LET m == mon.runs[r].todo[1].meeting_id
     IN mon' = [mon EXCEPT !.rows[m].summary_sent = @ \/ written,
                           !.runs[r].pc = "visuals"]

\* The rest of processMeeting and the switch of main: a complete meeting
\* is marked processed, a partial one is left for the next run.
FinishMeeting(r, result) ==
  /\ MonitorFrame
  /\ mon.runs[r].pc = "visuals"
  /\ LET m == mon.runs[r].todo[1].meeting_id
     IN mon' = [mon EXCEPT !.rows[m].processed = @ \/ (result = "complete"),
                           !.runs[r] = nextMeeting(@)]

NextMonitor ==
  \/ \E r \in Runs : MonitorStart(r)
  \/ \E r \in Runs, ok \in BOOLEAN : SendSummary(r, ok)
  \/ \E r \in Runs, ok \in BOOLEAN : UpdateMetadata(r, ok)
  \/ \E r \in Runs, res \in {"complete", "partial"} : FinishMeeting(r, res)

\* C40: each meeting's summary text is sent to Telegram at most once over
\* any number of monitor runs, runs that end partial or failed and runs
\* that overlap in time included.
C40_SummarySentOnce == \A m \in Meetings : mon.sent[m] <= 1

-----------------------------------------------------------------------------
(* isAuthorizedUser of relay-helpers.ts, on its own *)

AuthFrame ==
  UNCHANGED <<taskVars, lockVars, runVars, queueVars, clsVars, kbVars,
              streamVars, loopVars, chatVars, monVars>>

\* Telegram user ids as strings; the empty string is an unset
\* TELEGRAM_USER_ID.
UserIdStrings == {"", "12345", "99999", "any-id", "1", "12", "123456"}
UserIdArgs == {None} \cup {Some(u) : u \in UserIdStrings}

\* if (!allowedUserId) return false; return userId === allowedUserId;
isAuthorizedUser(userId, allowedUserId) ==
  IF allowedUserId = "" THEN FALSE ELSE userId = Some(allowedUserId)

NoAuth == [pc |-> "idle", userId |-> None, allowedUserId |-> "", result |-> FALSE]

IdleAuth == auth = NoAuth

InitAuth ==
  \E u \in UserIdArgs, a \in UserIdStrings :
    auth = [pc |-> "called", userId |-> u, allowedUserId |-> a, result |-> FALSE]

Authorize ==
  /\ auth.pc = "called"
  /\ auth' = [auth EXCEPT !.pc = "returned",
                          !.result = isAuthorizedUser(auth.userId, auth.allowedUserId)]
  /\ AuthFrame

NextAuth == Authorize

\* C31: isAuthorizedUser returns true for any user when no allowed user id
\* is set (the empty string); when one is set it returns true exactly when
\* the user id equals it, false for a different or an undefined user id.
C31_AuthorizedUser ==
  auth.pc = "returned" =>
    auth.result = (IF auth.allowedUserId = ""
                   THEN TRUE
                   ELSE auth.userId = Some(auth.allowedUserId))

-----------------------------------------------------------------------------

\* The stateful components start as constructed; a component that checks a
\* pure function is idle except under its own specification, which draws
\* the function's input.
InitComponents ==
  /\ InitTask /\ InitLock /\ InitRun /\ InitQueue
  /\ InitLoop /\ InitChat /\ InitMonitor
Init == InitComponents /\ IdleClassifier /\ IdleKeyboard /\ IdleStream /\ IdleAuth

ClassifierInit ==
  InitComponents /\ InitClassifier /\ IdleKeyboard /\ IdleStream /\ IdleAuth
KeyboardInit ==
  InitComponents /\ IdleClassifier /\ InitKeyboard /\ IdleStream /\ IdleAuth
StreamInit ==
  InitComponents /\ IdleClassifier /\ IdleKeyboard /\ InitStream /\ IdleAuth
AuthInit ==
  InitComponents /\ IdleClassifier /\ IdleKeyboard /\ IdleStream /\ InitAuth

SpecClassifier == ClassifierInit /\ [][NextClassifier]_vars
SpecKeyboard == KeyboardInit /\ [][NextKeyboard]_vars
SpecStream == StreamInit /\ [][NextStream]_vars
SpecAuth == AuthInit /\ [][NextAuth]_vars
SpecLoop == Init /\ [][NextLoop]_vars
SpecChat == Init /\ [][NextChat]_vars
SpecMonitor == Init /\ [][NextMonitor]_vars
SpecTask == Init /\ [][NextTask]_vars
SpecLock == Init /\ [][NextLock]_vars
SpecLockFaults == Init /\ [][NextLockFaults]_vars
SpecRun == Init /\ [][NextRun]_vars
\* The event loop runs every timer and continuation that is due.
SpecRunLive == Init /\ [][NextRun]_vars /\ WF_vars(NextRun)
SpecQueue == Init /\ [][NextQueue]_vars

====
